---- MODULE Spec2Model ----
(***************************************************************************)
(* Model of cli/internal/fs/turbo_json.go: parsing of one task object      *)
(* (BookkeepingTaskDefinition.UnmarshalJSON), MergeTaskDefinitions,        *)
(* Pipeline.GetTask / HasTask / Pristine, LoadTurboConfig,                 *)
(* TaskDefinition.MarshalJSON, TurboJSON.UnmarshalJSON and                 *)
(* TaskOutputs.Sort.                                                       *)
(*                                                                         *)
(* A Go string is a sequence of one-character strings, so that prefixes,   *)
(* slicing and byte-wise ordering are computed and not assumed.  A Go      *)
(* pointer or a slice that may be nil is a sequence of length at most one: *)
(* <<>> is nil and <<v>> is a present value v.                             *)
(***************************************************************************)
EXTENDS Integers, Sequences, FiniteSets, TLC

VARIABLES
    phase,                  \* position of the caller: "input" before the call, then the call's name
    task,                   \* rawTask decoded from the task object (UnmarshalJSON line 386)
    before,                 \* the receiver *btd as it was when UnmarshalJSON was entered
    btd,                    \* the receiver *btd of UnmarshalJSON
    err,                    \* error returned by UnmarshalJSON: "nil" or "error"
    log,                    \* messages written with log.Printf
    taskDefinitions,        \* argument of MergeTaskDefinitions
    mergedTaskDefinition,   \* result of MergeTaskDefinitions
    pipeline,               \* the Pipeline pc that GetTask is called on
    taskID,                 \* first argument of GetTask
    taskName,               \* second argument of GetTask
    got,                    \* what GetTask returned: the definition pointed to (or nil) and the error
    has,                    \* what HasTask returned
    turboFile,              \* turbo.json on disk: whether it exists, and the TurboJSON it decodes to (nil when it cannot be read or decoded)
    rootPackageJSON,        \* the root package manifest handed to LoadTurboConfig
    includeSynthesized,     \* includeSynthesizedFromRootPackageJSON
    loaded,                 \* what LoadTurboConfig returned: the TurboJSON (or nil) and the error
    taskDefinition,         \* the receiver c of TaskDefinition.MarshalJSON
    inputsArray,            \* contents of the backing array of c.Inputs, which the caller's definition shares
    emitted,                \* the JSON object MarshalJSON returned
    reparsed,               \* what UnmarshalJSON made of the emitted object: receiver, error and messages
    inputsArrays,           \* memory: for each pipeline key, the contents of the backing array of its entry's Inputs
    resolved,               \* for each key merged so far, the TaskDefinition MergeTaskDefinitions returned, as returned
    pristine,               \* nil, or the PristinePipeline that Pristine returned, as returned
    callers,                \* the goroutines that resolve and print a task each: position, arguments, locals, results
    rawTurboJSON,           \* rawTurboJSON decoded from the document (TurboJSON.UnmarshalJSON line 550)
    decoded,                \* the receiver *c of TurboJSON.UnmarshalJSON, and the error it returned
    to,                     \* the receiver of TaskOutputs.Sort
    sorted                  \* nil, or the TaskOutputs that Sort returned

parseVars == <<task, before, btd, err>>
mergeVars == <<taskDefinitions, mergedTaskDefinition>>
pipelineVars == <<pipeline, taskID, taskName, got, has>>
loadVars == <<turboFile, rootPackageJSON, includeSynthesized, loaded>>

marshalVars == <<taskDefinition, inputsArray, emitted, reparsed>>

\* the variables of the serializer and of the operations modelled after it
sharedVars == <<inputsArrays, resolved, pristine, callers>>

documentVars == <<rawTurboJSON, decoded>>
sortVars == <<to, sorted>>

restVars == <<marshalVars, sharedVars, documentVars, sortVars>>

vars == <<phase, log, parseVars, mergeVars, pipelineVars, loadVars, restVars>>

----------------------------------------------------------------------------
(* Bounds *)

\* Total number of list elements of a raw task (outputs + dependsOn + env + inputs)
\* or of a TaskDefinition handed to MarshalJSON; length of each list of a TaskOutputs
\* handed to Sort.
MaxTokens == 2
\* Length of the list handed to MergeTaskDefinitions.
MaxChain == 2
\* Number of entries of a pipeline.
MaxPipeline == 3
\* Number of scripts of the root package manifest.
MaxScripts == 2
\* Total number of entries of globalDependencies and globalEnv of a document.
MaxGlobals == 2

----------------------------------------------------------------------------
(* Strings *)

envPipelineDelimiter == <<"$">>
topologicalPipelineDelimiter == <<"^">>
negationPrefix == <<"!">>

\* byte value of a character, the order sort.Strings compares by
Ord(c) ==
    CASE c = "!" -> 33
      [] c = "#" -> 35
      [] c = "$" -> 36
      [] c = "/" -> 47
      [] c = "^" -> 94
      [] c = "a" -> 97
      [] c = "b" -> 98
      [] c = "p" -> 112

\* Go's s < t on strings: byte-wise lexicographic
RECURSIVE StrLess(_, _)
StrLess(s, t) ==
    IF t = <<>> THEN FALSE
    ELSE IF s = <<>> THEN TRUE
    ELSE IF Ord(Head(s)) # Ord(Head(t)) THEN Ord(Head(s)) < Ord(Head(t))
    ELSE StrLess(Tail(s), Tail(t))

\* strings.HasPrefix
HasPrefix(s, prefix) ==
    Len(s) >= Len(prefix) /\ SubSeq(s, 1, Len(prefix)) = prefix

\* strings.TrimPrefix: removes one occurrence of prefix, when present
TrimPrefix(s, prefix) ==
    IF HasPrefix(s, prefix) THEN SubSeq(s, Len(prefix) + 1, Len(s)) ELSE s

\* filepath.IsAbs on a unix build
IsAbs(path) == HasPrefix(path, <<"/">>)

\* insertion of x into an ascending list
RECURSIVE InsertSorted(_, _)
InsertSorted(x, list) ==
    IF list = <<>> THEN <<x>>
    ELSE IF StrLess(x, Head(list)) THEN <<x>> \o list
    ELSE <<Head(list)>> \o InsertSorted(x, Tail(list))

\* sort.Strings: the ascending permutation of list (duplicates kept)
RECURSIVE SortStrings(_)
SortStrings(list) ==
    IF list = <<>> THEN <<>>
    ELSE InsertSorted(Head(list), SortStrings(Tail(list)))

\* util.Set.UnsafeListOfStrings followed by sort.Strings: map iteration order is
\* unspecified, the sort makes the result the ascending list of the members
RECURSIVE SortedListOfSet(_)
SortedListOfSet(set) ==
    IF set = {} THEN <<>>
    ELSE LET x == CHOOSE y \in set : TRUE
         IN  InsertSorted(x, SortedListOfSet(set \ {x}))

\* elements of a list, as a set
Range(list) == {list[i] : i \in DOMAIN list}

\* s[1:] of every string of the list
Tails(list) == [i \in DOMAIN list |-> Tail(list[i])]

\* strings.TrimPrefix(s, prefix) of every string of the list
TrimPrefixes(list, prefix) == [i \in DOMAIN list |-> TrimPrefix(list[i], prefix)]

\* one log.Printf message per value
Messages(kind, key, values) ==
    [i \in DOMAIN values |-> [kind |-> kind, key |-> key, value |-> values[i]]]

----------------------------------------------------------------------------
(* Data model *)

Nil == <<>>
Some(v) == <<v>>

\* zero value of TaskOutputs
ZeroTaskOutputs == [Inclusions |-> <<>>, Exclusions |-> <<>>]

\* util.FullTaskOutput, the zero value of util.TaskOutputMode
FullTaskOutput == "full"
HashTaskOutput == "hash-only"

\* zero value of TaskDefinition
ZeroTaskDefinition ==
    [Outputs                 |-> ZeroTaskOutputs,
     ShouldCache             |-> FALSE,
     EnvVarDependencies      |-> <<>>,
     TopologicalDependencies |-> <<>>,
     TaskDependencies        |-> <<>>,
     Inputs                  |-> <<>>,
     OutputMode              |-> FullTaskOutput,
     Persistent              |-> FALSE]

\* zero value of BookkeepingTaskDefinition
ZeroBookkeepingTaskDefinition ==
    [definedFields |-> {}, TaskDefinition |-> ZeroTaskDefinition]

\* the field names MergeTaskDefinitions consults
Fields ==
    {"Outputs", "ShouldCache", "EnvVarDependencies", "TopologicalDependencies",
     "TaskDependencies", "Inputs", "OutputMode", "Persistent"}

\* BookkeepingTaskDefinition.hasField
hasField(b, fieldName) == fieldName \in b.definedFields

----------------------------------------------------------------------------
(* BookkeepingTaskDefinition.UnmarshalJSON *)

\* a nil slice ranges over nothing
Elems(p) == IF p = Nil THEN <<>> ELSE p[1]

\* lines 400-412: the globs without "!" in source order
OutputInclusions(globs) ==
    SelectSeq(globs, LAMBDA glob : ~HasPrefix(glob, negationPrefix))

\* a run of leading "!" removed instead of one
RECURSIVE TrimAllNegations(_)
TrimAllNegations(glob) ==
    IF HasPrefix(glob, negationPrefix) THEN TrimAllNegations(Tail(glob)) ELSE glob

OutputExclusions_TrimAll(globs) ==
    LET negated == SelectSeq(globs, LAMBDA glob : HasPrefix(glob, negationPrefix))
    IN  [i \in DOMAIN negated |-> TrimAllNegations(negated[i])]

\* lines 400-412: glob[1:] of the globs with "!" in source order
OutputExclusions(globs) ==
    Tails(SelectSeq(globs, LAMBDA glob : HasPrefix(glob, negationPrefix)))

\* lines 402-409: one warning per glob that is absolute after the "!" is cut
OutputWarnings(globs) ==
    Messages("WARNING", "outputs",
             SelectSeq(globs, LAMBDA glob :
                IF HasPrefix(glob, negationPrefix) THEN IsAbs(Tail(glob)) ELSE IsAbs(glob)))

\* lines 414-420
ParseOutputs(globs) ==
    [Inclusions |-> SortStrings(OutputInclusions(globs)),
     Exclusions |-> SortStrings(OutputExclusions(globs))]

\* presence inferred from the value: an empty list counts as absent
OutputsDefined_NonEmpty(t) == t.Outputs # Nil /\ Len(t.Outputs[1]) > 0

\* line 393
OutputsDefined(t) == t.Outputs # Nil

\* line 423 (negated)
CacheDefined(t) == t.Cache # Nil

\* line 436
IsEnvToken(dependency) == HasPrefix(dependency, envPipelineDelimiter)

\* the "^" test without the else: a "$^..." token is env and topological at once
IsTopologicalToken_NoElse(dependency) ==
    \/ HasPrefix(dependency, topologicalPipelineDelimiter)
    \/ HasPrefix(TrimPrefix(dependency, envPipelineDelimiter), topologicalPipelineDelimiter)

\* line 439, reached only when line 436 is false
IsTopologicalToken(dependency) ==
    ~IsEnvToken(dependency) /\ HasPrefix(dependency, topologicalPipelineDelimiter)

\* line 443
IsTaskToken(dependency) ==
    ~IsEnvToken(dependency) /\ ~IsTopologicalToken(dependency)

\* lines 435-438: names added to the envVarDependencies set from dependsOn
DependsOnEnv(deps) ==
    {TrimPrefix(d, envPipelineDelimiter) : d \in {x \in Range(deps) : IsEnvToken(x)}}

\* lines 439-442 and 451
DependsOnTopological(deps) ==
    SortStrings(TrimPrefixes(SelectSeq(deps, IsTopologicalToken),
                             topologicalPipelineDelimiter))

\* lines 443-447 and 450
DependsOnTask(deps) ==
    SortStrings(SelectSeq(deps, IsTaskToken))

\* line 437: one deprecation message per "$" token
DependsOnWarnings(deps) ==
    Messages("DEPRECATED", "dependsOn", SelectSeq(deps, IsEnvToken))

\* lines 476-480
InputWarnings(inputs) ==
    Messages("WARNING", "inputs", SelectSeq(inputs, IsAbs))

\* line 457: some entry of env starts with "$"
IllegalEnv(t) ==
    \E i \in DOMAIN Elems(t.Env) : HasPrefix(Elems(t.Env)[i], envPipelineDelimiter)

\* definedFields as the statements of lines 391-455 leave it
DefinedUpToEnv(t) ==
    (IF OutputsDefined(t) THEN {"Outputs"} ELSE {})
    \cup (IF CacheDefined(t) THEN {"ShouldCache"} ELSE {})
    \cup (IF \E i \in DOMAIN Elems(t.DependsOn) : IsTopologicalToken(Elems(t.DependsOn)[i])
          THEN {"TopologicalDependencies"} ELSE {})
    \cup (IF \E i \in DOMAIN Elems(t.DependsOn) : IsTaskToken(Elems(t.DependsOn)[i])
          THEN {"TaskDependencies"} ELSE {})
    \cup (IF t.Env # Nil THEN {"EnvVarDependencies"} ELSE {})

\* the fields lines 471-494 add to definedFields
DefinedAfterEnv(t) ==
    (IF t.Inputs # Nil THEN {"Inputs"} ELSE {})
    \cup (IF t.OutputMode # Nil THEN {"OutputMode"} ELSE {})
    \cup (IF t.Persistent # Nil THEN {"Persistent"} ELSE {})

\* the receiver's TaskDefinition after lines 393-451, the point the env loop starts from
TaskDefinitionUpToEnv(recv, t) ==
    [recv.TaskDefinition EXCEPT
        !.Outputs = IF OutputsDefined(t) THEN ParseOutputs(t.Outputs[1]) ELSE @,
        !.ShouldCache = IF CacheDefined(t) THEN t.Cache[1] ELSE TRUE,
        !.TopologicalDependencies = DependsOnTopological(Elems(t.DependsOn)),
        !.TaskDependencies = DependsOnTask(Elems(t.DependsOn))]

\* lines 467-494
TaskDefinitionAfterEnv(td, t) ==
    [td EXCEPT
        !.EnvVarDependencies =
            SortedListOfSet(DependsOnEnv(Elems(t.DependsOn)) \cup Range(Elems(t.Env))),
        !.Inputs = IF t.Inputs # Nil THEN t.Inputs[1] ELSE @,
        !.OutputMode = IF t.OutputMode # Nil THEN t.OutputMode[1] ELSE @,
        !.Persistent = IF t.Persistent # Nil THEN t.Persistent[1] ELSE FALSE]

\* UnmarshalJSON on receiver recv with the decoded raw task t:
\* the receiver as the call leaves it, the returned error and the messages logged
UnmarshalJSON(recv, t) ==
    LET upToEnv == [definedFields  |-> DefinedUpToEnv(t),
                    TaskDefinition |-> TaskDefinitionUpToEnv(recv, t)]
        logUpToEnv == OutputWarnings(Elems(t.Outputs)) \o DependsOnWarnings(Elems(t.DependsOn))
    IN  IF IllegalEnv(t)
        THEN [btd |-> upToEnv, err |-> "error", log |-> logUpToEnv]
        ELSE [btd |-> [definedFields  |-> upToEnv.definedFields \cup DefinedAfterEnv(t),
                       TaskDefinition |-> TaskDefinitionAfterEnv(upToEnv.TaskDefinition, t)],
              err |-> "nil",
              log |-> logUpToEnv \o InputWarnings(Elems(t.Inputs))]

----------------------------------------------------------------------------
(* Inputs of the parser *)

OutputGlobs == {<<"a">>, <<"/", "a">>, <<"!", "a">>, <<"!", "!", "a">>}
DependsOnTokens ==
    {<<"a">>, <<"b">>, <<"^", "a">>, <<"^", "^", "a">>, <<"$", "a">>, <<"$", "$", "a">>,
     <<"$", "^", "a">>}
EnvTokens == {<<"a">>, <<"b">>, <<"$", "a">>}
InputGlobs == {<<"b">>, <<"/", "a">>}

\* lists over tokens of length at most n
ListsUpTo(tokens, n) == UNION {[1..k -> tokens] : k \in 0..n}

\* nil, or a list over tokens of length at most n
OptionalLists(tokens, n) == {Nil} \cup {Some(l) : l \in ListsUpTo(tokens, n)}

OptionalBools == {Nil, Some(TRUE), Some(FALSE)}
OptionalOutputModes == {Nil, Some(HashTaskOutput)}

ListLen(p) == Len(Elems(p))

----------------------------------------------------------------------------
(* MergeTaskDefinitions *)

\* the accumulator without line 343
InitialMergedTaskDefinition_ZeroValue == ZeroTaskDefinition

\* lines 339-343
InitialMergedTaskDefinition == [ZeroTaskDefinition EXCEPT !.ShouldCache = TRUE]

\* a deep union of Outputs in place of the replacement of line 349
MergeOne_UnionOutputs(merged, b) ==
    LET taskDef == b.TaskDefinition
    IN  [Outputs |->
            IF hasField(b, "Outputs")
            THEN [Inclusions |-> SortedListOfSet(Range(merged.Outputs.Inclusions)
                                                 \cup Range(taskDef.Outputs.Inclusions)),
                  Exclusions |-> SortedListOfSet(Range(merged.Outputs.Exclusions)
                                                 \cup Range(taskDef.Outputs.Exclusions))]
            ELSE merged.Outputs,
         ShouldCache |->
            IF hasField(b, "ShouldCache") THEN taskDef.ShouldCache ELSE merged.ShouldCache,
         EnvVarDependencies |->
            IF hasField(b, "EnvVarDependencies")
            THEN taskDef.EnvVarDependencies ELSE merged.EnvVarDependencies,
         TopologicalDependencies |->
            IF hasField(b, "TopologicalDependencies")
            THEN taskDef.TopologicalDependencies ELSE merged.TopologicalDependencies,
         TaskDependencies |->
            IF hasField(b, "TaskDependencies")
            THEN taskDef.TaskDependencies ELSE merged.TaskDependencies,
         Inputs |->
            IF hasField(b, "Inputs") THEN taskDef.Inputs ELSE merged.Inputs,
         OutputMode |->
            IF hasField(b, "OutputMode") THEN taskDef.OutputMode ELSE merged.OutputMode,
         Persistent |->
            IF hasField(b, "Persistent") THEN taskDef.Persistent ELSE merged.Persistent]

\* lines 347-377: the body of the loop, one definition merged into the accumulator
MergeOne(merged, b) ==
    LET taskDef == b.TaskDefinition
    IN  [Outputs |->
            IF hasField(b, "Outputs") THEN taskDef.Outputs ELSE merged.Outputs,
         ShouldCache |->
            IF hasField(b, "ShouldCache") THEN taskDef.ShouldCache ELSE merged.ShouldCache,
         EnvVarDependencies |->
            IF hasField(b, "EnvVarDependencies")
            THEN taskDef.EnvVarDependencies ELSE merged.EnvVarDependencies,
         TopologicalDependencies |->
            IF hasField(b, "TopologicalDependencies")
            THEN taskDef.TopologicalDependencies ELSE merged.TopologicalDependencies,
         TaskDependencies |->
            IF hasField(b, "TaskDependencies")
            THEN taskDef.TaskDependencies ELSE merged.TaskDependencies,
         Inputs |->
            IF hasField(b, "Inputs") THEN taskDef.Inputs ELSE merged.Inputs,
         OutputMode |->
            IF hasField(b, "OutputMode") THEN taskDef.OutputMode ELSE merged.OutputMode,
         Persistent |->
            IF hasField(b, "Persistent") THEN taskDef.Persistent ELSE merged.Persistent]

\* lines 346-378: the loop over the first n definitions
RECURSIVE MergeUpTo(_, _)
MergeUpTo(defs, n) ==
    IF n = 0 THEN InitialMergedTaskDefinition
    ELSE MergeOne(MergeUpTo(defs, n - 1), defs[n])

\* lines 337-381
MergeTaskDefinitions(defs) == MergeUpTo(defs, Len(defs))

----------------------------------------------------------------------------
(* Inputs of the merge *)

\* three TaskDefinition values that differ from each other in every list field;
\* the first carries the non-default booleans
TaskDefinitionValues ==
    {[Outputs                 |-> ZeroTaskOutputs,
      ShouldCache             |-> FALSE,
      EnvVarDependencies      |-> <<>>,
      TopologicalDependencies |-> <<>>,
      TaskDependencies        |-> <<>>,
      Inputs                  |-> <<>>,
      OutputMode              |-> FullTaskOutput,
      Persistent              |-> TRUE],
     [Outputs                 |-> [Inclusions |-> << <<"a">> >>, Exclusions |-> <<>>],
      ShouldCache             |-> TRUE,
      EnvVarDependencies      |-> << <<"a">> >>,
      TopologicalDependencies |-> << <<"a">> >>,
      TaskDependencies        |-> << <<"a">> >>,
      Inputs                  |-> << <<"a">> >>,
      OutputMode              |-> HashTaskOutput,
      Persistent              |-> FALSE],
     [Outputs                 |-> [Inclusions |-> << <<"b">> >>, Exclusions |-> << <<"a">> >>],
      ShouldCache             |-> FALSE,
      EnvVarDependencies      |-> << <<"b">> >>,
      TopologicalDependencies |-> << <<"a">>, <<"b">> >>,
      TaskDependencies        |-> << <<"b">> >>,
      Inputs                  |-> << <<"b">>, <<"a">> >>,
      OutputMode              |-> FullTaskOutput,
      Persistent              |-> TRUE]}

\* definedFields of the definitions tried: nothing, one field, all but one field, everything
DefinedFieldsChoices ==
    {{}, Fields} \cup {{f} : f \in Fields} \cup {Fields \ {f} : f \in Fields}

BookkeepingTaskDefinitions ==
    {[definedFields |-> df, TaskDefinition |-> td] :
        df \in DefinedFieldsChoices, td \in TaskDefinitionValues}


----------------------------------------------------------------------------
(* Task identifiers (package util) *)

TaskDelimiter == <<"#">>
RootPkgName == <<"/", "/">>

\* strings.Index(s, "#"), counted from 1; 0 when s has no "#"
RECURSIVE IndexOfDelimiter(_)
IndexOfDelimiter(s) ==
    IF s = <<>> THEN 0
    ELSE IF Head(s) = "#" THEN 1
    ELSE IF IndexOfDelimiter(Tail(s)) = 0 THEN 0
    ELSE 1 + IndexOfDelimiter(Tail(s))

\* util.IsPackageTask: the identifier is workspace-qualified, "pkg#task" with a
\* package part before the "#"
IsPackageTask(id) == IndexOfDelimiter(id) > 1

\* util.GetPackageTaskFromId, second result: the task component, between the first
\* "#" and the next one (or the end)
GetPackageTaskFromId(id) ==
    LET rest == SubSeq(id, IndexOfDelimiter(id) + 1, Len(id))
        next == IndexOfDelimiter(rest)
    IN  IF next = 0 THEN rest ELSE SubSeq(rest, 1, next - 1)

\* util.RootTaskID: the root-qualified identifier "//#task" of a bare task name
RootTaskID(target) == RootPkgName \o TaskDelimiter \o target

----------------------------------------------------------------------------
(* Pipeline *)

\* the bare name looked up first
GetTask_NameFirst(pc, id, name) ==
    IF name \in DOMAIN pc THEN [def |-> Some(pc[name]), err |-> "nil"]
    ELSE IF id \in DOMAIN pc THEN [def |-> Some(pc[id]), err |-> "nil"]
    ELSE [def |-> Nil, err |-> "error"]

\* an empty definition and no error when neither key is there
GetTask_EmptyOnMiss(pc, id, name) ==
    IF id \in DOMAIN pc THEN [def |-> Some(pc[id]), err |-> "nil"]
    ELSE IF name \in DOMAIN pc THEN [def |-> Some(pc[name]), err |-> "nil"]
    ELSE [def |-> Some(ZeroBookkeepingTaskDefinition), err |-> "nil"]

\* Pipeline.GetTask, lines 139-156: the definition the returned pointer points to
\* (a copy of the entry) or nil, and the error
GetTask(pc, id, name) ==
    IF id \in DOMAIN pc THEN [def |-> Some(pc[id]), err |-> "nil"]
    ELSE IF name \in DOMAIN pc THEN [def |-> Some(pc[name]), err |-> "nil"]
    ELSE [def |-> Nil, err |-> "error"]

\* the key of the entry GetTask returns a copy of, or nil
GetTaskKey(pc, id, name) ==
    IF id \in DOMAIN pc THEN Some(id)
    ELSE IF name \in DOMAIN pc THEN Some(name)
    ELSE Nil

\* only the keys themselves compared
HasTask_ExactOnly(pc, name) == name \in DOMAIN pc

\* Pipeline.HasTask, lines 303-316
HasTask(pc, name) ==
    \E key \in DOMAIN pc :
        \/ key = name
        \/ IsPackageTask(key) /\ GetPackageTaskFromId(key) = name

\* make(Pipeline)
EmptyPipeline == [key \in {} |-> ZeroBookkeepingTaskDefinition]

\* pc[key] = entry
Put(pc, key, entry) ==
    [k \in DOMAIN pc \cup {key} |-> IF k = key THEN entry ELSE pc[k]]

\* Pipeline.Pristine, lines 319-325: the TaskDefinition of every entry, copied by value
Pristine(pc) == [key \in DOMAIN pc |-> pc[key].TaskDefinition]

----------------------------------------------------------------------------
(* LoadTurboConfig *)

\* every script gets an entry, also when the pipeline has the task
ScriptMissing_Always(pc, scriptName) == TRUE

\* line 206
ScriptMissing(pc, scriptName) == ~HasTask(pc, scriptName)

\* lines 211-216
SynthesizedTask ==
    [definedFields |-> {"ShouldCache"},
     TaskDefinition |-> [ZeroTaskDefinition EXCEPT !.ShouldCache = FALSE]]

\* lines 205-218, the scripts visited in the order of the list
RECURSIVE AddScripts(_, _)
AddScripts(pc, scriptNames) ==
    IF scriptNames = <<>> THEN pc
    ELSE AddScripts(
            IF ScriptMissing(pc, Head(scriptNames))
            THEN Put(pc, RootTaskID(Head(scriptNames)), SynthesizedTask)
            ELSE pc,
            Tail(scriptNames))

\* the keys left as the document has them
RootPipeline_Unchanged(pc) == pc

\* lines 194-200, when no key is a package task
RootPipeline(pc) ==
    [key \in {RootTaskID(k) : k \in DOMAIN pc} |->
        pc[CHOOSE k \in DOMAIN pc : RootTaskID(k) = key]]

\* a file that cannot be read or decoded taken for a missing one
readTurboConfig_UnreadableIsAbsent(file) ==
    IF ~file.exists \/ file.turboJSON = Nil THEN [turboJSON |-> Nil, err |-> "ErrNotExist"]
    ELSE [turboJSON |-> file.turboJSON, err |-> "nil"]

\* readTurboConfig, lines 255-268
readTurboConfig(file) ==
    IF ~file.exists THEN [turboJSON |-> Nil, err |-> "ErrNotExist"]
    ELSE IF file.turboJSON = Nil THEN [turboJSON |-> Nil, err |-> "error"]
    ELSE [turboJSON |-> file.turboJSON, err |-> "nil"]

\* LoadTurboConfig, lines 159-220; scriptNames is the order in which the range over
\* rootPackageJSON.Scripts yields the names
LoadTurboConfig(file, scriptNames, include) ==
    LET read == readTurboConfig(file)
    IN  IF ~include /\ read.err # "nil"
        THEN [turboJSON |-> Nil,
              err |-> IF read.err = "ErrNotExist" THEN "could not find turbo.json" ELSE "error"]
        ELSE IF ~include THEN read
        ELSE IF read.err = "ErrNotExist"
        THEN [turboJSON |->
                Some([GlobalDeps |-> <<>>, GlobalEnv |-> <<>>,
                      Pipeline |-> AddScripts(EmptyPipeline, scriptNames),
                      RemoteCacheOptions |-> [TeamID |-> <<>>, Signature |-> FALSE],
                      Extends |-> <<>>]),
              err |-> "nil"]
        ELSE IF read.err # "nil" THEN [turboJSON |-> Nil, err |-> "error"]
        ELSE IF \E k \in DOMAIN read.turboJSON[1].Pipeline : IsPackageTask(k)
        THEN [turboJSON |-> Nil, err |-> "package task"]
        ELSE [turboJSON |->
                Some([read.turboJSON[1] EXCEPT
                        !.Pipeline = AddScripts(RootPipeline(@), scriptNames)]),
              err |-> "nil"]

----------------------------------------------------------------------------
(* Inputs of the pipeline operations *)

PipelineKeys ==
    {<<"a">>, <<"b">>, <<"p", "#", "a">>, <<"p", "#", "b">>, <<"/", "/", "#", "a">>}
TaskNames == {<<"a">>, <<"b">>}
ScriptNames == {<<"a">>, <<"b">>, <<"p">>}

\* two entries as the parser makes them, one with nothing defined
PipelineEntries ==
    {[definedFields |-> {},
      TaskDefinition |-> [ZeroTaskDefinition EXCEPT !.ShouldCache = TRUE]],
     [definedFields |-> {"Outputs", "ShouldCache", "TaskDependencies"},
      TaskDefinition |-> [ZeroTaskDefinition EXCEPT
                            !.Outputs = [Inclusions |-> << <<"a">> >>, Exclusions |-> <<>>],
                            !.ShouldCache = TRUE,
                            !.TaskDependencies = << <<"b">> >>]]}

\* the pipelines with keys among keys and at most MaxPipeline entries
Pipelines(keys) ==
    UNION {[K -> PipelineEntries] : K \in {S \in SUBSET keys : Cardinality(S) <= MaxPipeline}}

\* the orders in which the names of a set can be visited
Orders(S) ==
    {o \in [1..Cardinality(S) -> S] : \A i, j \in DOMAIN o : i # j => o[i] # o[j]}

----------------------------------------------------------------------------
(* TaskDefinition.MarshalJSON *)

\* lines 502-505: every array of the emitted object starts as []string{}, which
\* json.Marshal writes as [] where it writes null for a nil slice
EmptyArray == Some(<<>>)

\* append(array, values...)
AppendAll(array, values) ==
    IF values = <<>> THEN array ELSE Some(Elems(array) \o values)

\* sort.Strings(array), in place
Sorted(array) == IF array = Nil THEN Nil ELSE Some(SortStrings(array[1]))

\* prefix + s for every string of the list
Prefixed(prefix, list) == [i \in DOMAIN list |-> prefix \o list[i]]

\* task.Outputs: Inclusions, then "!" + each exclusion, then sorted
MarshalOutputs(td) ==
    LET inclusions == IF Len(td.Outputs.Inclusions) > 0
                      THEN AppendAll(EmptyArray, td.Outputs.Inclusions) ELSE EmptyArray
    IN  Sorted(AppendAll(inclusions, Prefixed(negationPrefix, td.Outputs.Exclusions)))

\* task.DependsOn as it would be without line 539
MarshalDependsOn_Unsorted(td) ==
    LET tasks == IF Len(td.TaskDependencies) > 0
                 THEN AppendAll(EmptyArray, td.TaskDependencies) ELSE EmptyArray
    IN  AppendAll(tasks, Prefixed(topologicalPipelineDelimiter, td.TopologicalDependencies))

\* task.DependsOn: TaskDependencies, then "^" + each topological dependency, then sorted
MarshalDependsOn(td) ==
    LET tasks == IF Len(td.TaskDependencies) > 0
                 THEN AppendAll(EmptyArray, td.TaskDependencies) ELSE EmptyArray
    IN  Sorted(AppendAll(tasks, Prefixed(topologicalPipelineDelimiter, td.TopologicalDependencies)))

\* task.Env
MarshalEnv(td) ==
    Sorted(IF Len(td.EnvVarDependencies) > 0
           THEN AppendAll(EmptyArray, td.EnvVarDependencies) ELSE EmptyArray)

\* task.Inputs: the slice c.Inputs itself when it is not empty, sorted by line 542
MarshalInputs(td) ==
    Sorted(IF Len(td.Inputs) > 0 THEN Some(td.Inputs) ELSE EmptyArray)

\* the backing array of c.Inputs when MarshalJSON returns: task.Inputs is the same
\* slice (line 513) and sort.Strings sorts it where it is (line 542); an empty slice
\* has nothing to sort
InputsAfterMarshalJSON(td) == SortStrings(td.Inputs)

\* the object json.Marshal writes for rawTaskWithDefaults (no key is omitempty)
MarshalJSON(td) ==
    [outputs    |-> MarshalOutputs(td),
     cache      |-> Some(td.ShouldCache),
     dependsOn  |-> MarshalDependsOn(td),
     inputs     |-> MarshalInputs(td),
     outputMode |-> td.OutputMode,
     env        |-> MarshalEnv(td),
     persistent |-> td.Persistent]

\* json.Unmarshal of an emitted object into a rawTask: every key is present, null
\* leaves a slice nil
DecodeRawTask(object) ==
    [Outputs    |-> object.outputs,
     Cache      |-> object.cache,
     DependsOn  |-> object.dependsOn,
     Inputs     |-> object.inputs,
     OutputMode |-> Some(object.outputMode),
     Env        |-> object.env,
     Persistent |-> Some(object.persistent)]

\* names a TaskDefinition's lists are made of
MarshalTokens == {<<"a">>, <<"b">>}

----------------------------------------------------------------------------
(* TaskOutputs.Sort *)

\* copy(dst, src): the first min(len(dst), len(src)) elements of src written over dst
Copy(dst, src) == [i \in DOMAIN dst |-> IF i <= Len(src) THEN src[i] ELSE dst[i]]

\* TaskOutputs.Sort, lines 244-252: inclusions and exclusions are declared without a
\* length (nil slices), copied into, sorted and returned
TaskOutputsSort(outputs) ==
    [Inclusions |-> SortStrings(Copy(<<>>, outputs.Inclusions)),
     Exclusions |-> SortStrings(Copy(<<>>, outputs.Exclusions))]

SortTokens == {<<"a">>, <<"b">>, <<"p">>}

----------------------------------------------------------------------------
(* TurboJSON.UnmarshalJSON *)

\* lines 557-562: some globalEnv entry starts with "$"
IllegalGlobalEnv(raw) ==
    \E value \in Range(raw.GlobalEnv) : HasPrefix(value, envPipelineDelimiter)

\* the envVarDependencies set, lines 557-571
GlobalEnvVarDependencies(raw) ==
    Range(raw.GlobalEnv)
    \cup {TrimPrefix(value, envPipelineDelimiter) :
            value \in {v \in Range(raw.GlobalDependencies) : HasPrefix(v, envPipelineDelimiter)}}

\* every globalDependencies entry kept as a file dependency
GlobalFileDependencies_All(raw) == Range(raw.GlobalDependencies)

\* the globalFileDependencies set, lines 568-577
GlobalFileDependencies(raw) ==
    {value \in Range(raw.GlobalDependencies) : ~HasPrefix(value, envPipelineDelimiter)}

\* the message of lines 570 or 574 for one globalDependencies entry, if any
GlobalDependencyMessage(value) ==
    IF HasPrefix(value, envPipelineDelimiter)
    THEN Messages("DEPRECATED", "globalDependencies", <<value>>)
    ELSE IF IsAbs(value) THEN Messages("WARNING", "globalDependencies", <<value>>)
    ELSE <<>>

\* the messages of the loop of lines 568-578, in the order of the entries
RECURSIVE GlobalDependencyMessages(_)
GlobalDependencyMessages(values) ==
    IF values = <<>> THEN <<>>
    ELSE GlobalDependencyMessage(Head(values)) \o GlobalDependencyMessages(Tail(values))

\* TurboJSON.UnmarshalJSON on receiver recv with the decoded rawTurboJSON raw: the
\* receiver as the call leaves it, the returned error and the messages logged
TurboJSONUnmarshalJSON(recv, raw) ==
    IF IllegalGlobalEnv(raw)
    THEN [c |-> recv, err |-> "error", log |-> <<>>]
    ELSE [c |-> [GlobalDeps         |-> SortedListOfSet(GlobalFileDependencies(raw)),
                 GlobalEnv          |-> SortedListOfSet(GlobalEnvVarDependencies(raw)),
                 Pipeline           |-> raw.Pipeline,
                 RemoteCacheOptions |-> raw.RemoteCacheOptions,
                 Extends            |-> raw.Extends],
          err |-> "nil",
          log |-> GlobalDependencyMessages(raw.GlobalDependencies)]

GlobalDependencyTokens ==
    {<<"a">>, <<"b">>, <<"/", "a">>, <<"$", "a">>, <<"$", "$", "a">>}
GlobalEnvTokens == {<<"a">>, <<"b">>, <<"$", "a">>}

----------------------------------------------------------------------------
(* Specifications: one per operation, the inputs drawn in the initial state *)

ParseIdle ==
    /\ task = Nil
    /\ before = ZeroBookkeepingTaskDefinition
    /\ btd = ZeroBookkeepingTaskDefinition
    /\ err = "nil"

MergeIdle ==
    /\ taskDefinitions = <<>>
    /\ mergedTaskDefinition = ZeroTaskDefinition

PipelineIdle ==
    /\ pipeline = EmptyPipeline
    /\ taskID = <<>>
    /\ taskName = <<>>
    /\ got = [def |-> Nil, err |-> "nil"]
    /\ has = FALSE

LoadIdle ==
    /\ turboFile = [exists |-> FALSE, turboJSON |-> Nil]
    /\ rootPackageJSON = [Scripts |-> {}, LegacyTurboConfig |-> Nil]
    /\ includeSynthesized = FALSE
    /\ loaded = [turboJSON |-> Nil, err |-> "nil"]

MarshalIdle ==
    /\ taskDefinition = ZeroTaskDefinition
    /\ inputsArray = <<>>
    /\ emitted = Nil
    /\ reparsed = Nil

SharedIdle ==
    /\ inputsArrays = <<>>
    /\ resolved = <<>>
    /\ pristine = Nil
    /\ callers = <<>>

\* zero value of TurboJSON
ZeroTurboJSON ==
    [GlobalDeps |-> <<>>, GlobalEnv |-> <<>>, Pipeline |-> EmptyPipeline,
     RemoteCacheOptions |-> [TeamID |-> <<>>, Signature |-> FALSE], Extends |-> <<>>]

DocumentIdle ==
    /\ rawTurboJSON = Nil
    /\ decoded = [c |-> ZeroTurboJSON, err |-> "nil"]

SortIdle ==
    /\ to = ZeroTaskOutputs
    /\ sorted = Nil

RestIdle == MarshalIdle /\ SharedIdle /\ DocumentIdle /\ SortIdle

\* json.Unmarshal has decoded the task object into a rawTask; the receiver is the
\* fresh zero value the decoder makes for a map element
InitParse ==
    /\ phase = "input"
    /\ \E o \in OptionalLists(OutputGlobs, MaxTokens) :
       \E d \in OptionalLists(DependsOnTokens, MaxTokens - ListLen(o)) :
       \E e \in OptionalLists(EnvTokens, MaxTokens - ListLen(o) - ListLen(d)) :
       \E i \in OptionalLists(InputGlobs, MaxTokens - ListLen(o) - ListLen(d) - ListLen(e)) :
       \E c \in OptionalBools, p \in OptionalBools, m \in OptionalOutputModes :
            task = [Outputs |-> o, Cache |-> c, DependsOn |-> d, Inputs |-> i,
                    OutputMode |-> m, Env |-> e, Persistent |-> p]
    /\ before = ZeroBookkeepingTaskDefinition
    /\ btd = ZeroBookkeepingTaskDefinition
    /\ err = "nil"
    /\ log = <<>>
    /\ MergeIdle /\ PipelineIdle /\ LoadIdle /\ RestIdle

UnmarshalTask ==
    /\ phase = "input"
    /\ LET r == UnmarshalJSON(btd, task)
       IN  /\ btd' = r.btd
           /\ err' = r.err
           /\ log' = log \o r.log
    /\ phase' = "UnmarshalJSON"
    /\ UNCHANGED <<task, before, mergeVars, pipelineVars, loadVars, restVars>>

NextParse == UnmarshalTask

SpecParse == InitParse /\ [][NextParse]_vars

\* the caller has collected the definitions of one task along the extends chain
InitMerge ==
    /\ phase = "input"
    /\ taskDefinitions \in UNION {[1..n -> BookkeepingTaskDefinitions] : n \in 0..MaxChain}
    /\ mergedTaskDefinition = ZeroTaskDefinition
    /\ log = <<>>
    /\ ParseIdle /\ PipelineIdle /\ LoadIdle /\ RestIdle

Merge ==
    /\ phase = "input"
    /\ mergedTaskDefinition' = MergeTaskDefinitions(taskDefinitions)
    /\ phase' = "MergeTaskDefinitions"
    /\ UNCHANGED <<taskDefinitions, log, parseVars, pipelineVars, loadVars, restVars>>

NextMerge == Merge

SpecMerge == InitMerge /\ [][NextMerge]_vars

\* a pipeline has been loaded and the caller asks for a task
InitPipeline ==
    /\ phase = "input"
    /\ pipeline \in Pipelines(PipelineKeys)
    /\ taskID \in PipelineKeys
    /\ taskName \in TaskNames
    /\ got = [def |-> Nil, err |-> "nil"]
    /\ has = FALSE
    /\ log = <<>>
    /\ ParseIdle /\ MergeIdle /\ LoadIdle /\ RestIdle

CallGetTask ==
    /\ phase = "input"
    /\ got' = GetTask(pipeline, taskID, taskName)
    /\ phase' = "GetTask"
    /\ UNCHANGED <<pipeline, taskID, taskName, has, log, parseVars, mergeVars, loadVars, restVars>>

\* HasTask is asked for the identifier taskID
CallHasTask ==
    /\ phase = "input"
    /\ has' = HasTask(pipeline, taskID)
    /\ phase' = "HasTask"
    /\ UNCHANGED <<pipeline, taskID, taskName, got, log, parseVars, mergeVars, loadVars, restVars>>

NextPipeline == CallGetTask \/ CallHasTask

SpecPipeline == InitPipeline /\ [][NextPipeline]_vars

DocumentKeys == {<<"a">>, <<"b">>, <<"p", "#", "a">>, <<"/", "/", "#", "a">>}

\* the TurboJSON that turbo.json decodes to, with pipeline pc
Document(pc) ==
    [GlobalDeps |-> << <<"a">> >>,
     GlobalEnv |-> << <<"b">> >>,
     Pipeline |-> pc,
     RemoteCacheOptions |-> [TeamID |-> <<"p">>, Signature |-> TRUE],
     Extends |-> << <<"p">> >>]

\* the state of the disk and the arguments of LoadTurboConfig
InitLoad ==
    /\ phase = "input"
    /\ turboFile \in
            {[exists |-> FALSE, turboJSON |-> Nil], [exists |-> TRUE, turboJSON |-> Nil]}
            \cup {[exists |-> TRUE, turboJSON |-> Some(Document(pc))] :
                        pc \in Pipelines(DocumentKeys)}
    /\ \E scripts \in {S \in SUBSET ScriptNames : Cardinality(S) <= MaxScripts},
          legacy \in {Nil, Some("turbo")} :
            rootPackageJSON = [Scripts |-> scripts, LegacyTurboConfig |-> legacy]
    /\ includeSynthesized \in BOOLEAN
    /\ loaded = [turboJSON |-> Nil, err |-> "nil"]
    /\ log = <<>>
    /\ ParseIdle /\ MergeIdle /\ PipelineIdle /\ RestIdle

\* lines 161-164
LegacyWarning(pkg) ==
    IF pkg.LegacyTurboConfig # Nil THEN Messages("WARNING", "turbo", << <<>> >>) ELSE <<>>

Load ==
    /\ phase = "input"
    /\ \E order \in Orders(rootPackageJSON.Scripts) :
        loaded' = LoadTurboConfig(turboFile, order, includeSynthesized)
    /\ log' = log \o LegacyWarning(rootPackageJSON)
    /\ rootPackageJSON' = [rootPackageJSON EXCEPT !.LegacyTurboConfig = Nil]
    /\ phase' = "LoadTurboConfig"
    /\ UNCHANGED <<turboFile, includeSynthesized, parseVars, mergeVars, pipelineVars, restVars>>

NextLoad == Load

SpecLoad == InitLoad /\ [][NextLoad]_vars

\* a TaskDefinition has been resolved, its lists in any order, and is to be printed
InitMarshal ==
    /\ phase = "input"
    /\ \E o \in ListsUpTo(MarshalTokens, MaxTokens) :
       \E x \in ListsUpTo(MarshalTokens, MaxTokens - Len(o)) :
       \E e \in ListsUpTo(MarshalTokens, MaxTokens - Len(o) - Len(x)) :
       \E t \in ListsUpTo(MarshalTokens, MaxTokens - Len(o) - Len(x) - Len(e)) :
       \E d \in ListsUpTo(MarshalTokens, MaxTokens - Len(o) - Len(x) - Len(e) - Len(t)) :
       \E i \in ListsUpTo(MarshalTokens,
                           MaxTokens - Len(o) - Len(x) - Len(e) - Len(t) - Len(d)) :
       \E cache \in BOOLEAN, p \in BOOLEAN, m \in {FullTaskOutput, HashTaskOutput} :
            taskDefinition =
                [Outputs                 |-> [Inclusions |-> o, Exclusions |-> x],
                 ShouldCache             |-> cache,
                 EnvVarDependencies      |-> e,
                 TopologicalDependencies |-> t,
                 TaskDependencies        |-> d,
                 Inputs                  |-> i,
                 OutputMode              |-> m,
                 Persistent              |-> p]
    /\ inputsArray = taskDefinition.Inputs
    /\ emitted = Nil
    /\ reparsed = Nil
    /\ log = <<>>
    /\ ParseIdle /\ MergeIdle /\ PipelineIdle /\ LoadIdle /\ SharedIdle
    /\ DocumentIdle /\ SortIdle

\* the receiver is a copy of the caller's definition (value receiver); its Inputs slice points
\* at the caller's backing array
Marshal ==
    /\ phase = "input"
    /\ emitted' = Some(MarshalJSON(taskDefinition))
    /\ inputsArray' = InputsAfterMarshalJSON(taskDefinition)
    /\ phase' = "MarshalJSON"
    /\ UNCHANGED <<taskDefinition, reparsed, log, parseVars, mergeVars, pipelineVars, loadVars, documentVars, sortVars,
                   sharedVars>>

NextMarshal == Marshal

SpecMarshal == InitMarshal /\ [][NextMarshal]_vars

\* the parsed definition is the only one of its chain
MergeParsed ==
    /\ phase = "UnmarshalJSON"
    /\ err = "nil"
    /\ taskDefinitions' = <<btd>>
    /\ mergedTaskDefinition' = MergeTaskDefinitions(<<btd>>)
    /\ phase' = "MergeTaskDefinitions"
    /\ UNCHANGED <<log, parseVars, pipelineVars, loadVars, documentVars, sortVars, restVars>>

\* the merged definition is printed; its Inputs slice is the parsed definition's
\* (line 369 copies the slice header, not the array)
MarshalMerged ==
    /\ phase = "MergeTaskDefinitions"
    /\ taskDefinition' = mergedTaskDefinition
    /\ emitted' = Some(MarshalJSON(mergedTaskDefinition))
    /\ inputsArray' = InputsAfterMarshalJSON(mergedTaskDefinition)
    /\ phase' = "MarshalJSON"
    /\ UNCHANGED <<reparsed, log, parseVars, mergeVars, pipelineVars, loadVars, documentVars, sortVars, sharedVars>>

\* the printed object is parsed as a task object, into a fresh receiver
Reparse ==
    /\ phase = "MarshalJSON"
    /\ reparsed' = Some(UnmarshalJSON(ZeroBookkeepingTaskDefinition, DecodeRawTask(emitted[1])))
    /\ phase' = "reparsed"
    /\ UNCHANGED <<taskDefinition, inputsArray, emitted, log, parseVars, mergeVars,
                   pipelineVars, loadVars, documentVars, sortVars, sharedVars>>

NextRoundTrip == UnmarshalTask \/ MergeParsed \/ MarshalMerged \/ Reparse

\* parse, merge the one-element chain, print, parse again
SpecRoundTrip == InitParse /\ [][NextRoundTrip]_vars

\* the pipeline keys and the entries of a loaded pipeline whose values are shared:
\* each entry is what UnmarshalJSON makes of a task object with or without inputs
SharedKeys == {<<"a">>, <<"p", "#", "a">>}

SharedEntries ==
    {UnmarshalJSON(ZeroBookkeepingTaskDefinition,
                   [Outputs |-> Nil, Cache |-> Nil, DependsOn |-> Nil, Inputs |-> i,
                    OutputMode |-> Nil, Env |-> Nil, Persistent |-> Nil]).btd :
        i \in OptionalLists(InputGlobs, MaxTokens)}

SharedPipelines == UNION {[K -> SharedEntries] : K \in SUBSET SharedKeys}

\* the pipeline entry of key as memory holds it now
EntryNow(key) == [pipeline[key] EXCEPT !.TaskDefinition.Inputs = inputsArrays[key]]

\* the definition merged from the entry of key as memory holds it now: line 369
\* copies the slice, so its Inputs are the entry's array when the entry defines Inputs
ResolvedNow(key) ==
    [resolved[key] EXCEPT
        !.Inputs = IF hasField(pipeline[key], "Inputs") THEN inputsArrays[key] ELSE @]

\* the pristine copy of the entry of key as memory holds it now: line 322 copies the
\* struct, so its Inputs are the entry's array
PristineNow(key) == [pristine[1][key] EXCEPT !.Inputs = inputsArrays[key]]

\* a pipeline has been loaded; nothing has been derived from it yet
InitProduced ==
    /\ phase = "input"
    /\ pipeline \in SharedPipelines
    /\ inputsArrays = [key \in DOMAIN pipeline |-> pipeline[key].TaskDefinition.Inputs]
    /\ resolved = [key \in {} |-> ZeroTaskDefinition]
    /\ pristine = Nil
    /\ callers = <<>>
    /\ taskID = <<>> /\ taskName = <<>> /\ got = [def |-> Nil, err |-> "nil"] /\ has = FALSE
    /\ log = <<>>
    /\ ParseIdle /\ MergeIdle /\ LoadIdle /\ MarshalIdle /\ DocumentIdle /\ SortIdle

\* MergeTaskDefinitions on the one-element chain of the entry of key
MergeEntry(key) ==
    /\ key \in DOMAIN pipeline \ DOMAIN resolved
    /\ resolved' = Put(resolved, key, MergeTaskDefinitions(<<EntryNow(key)>>))
    /\ phase' = "MergeTaskDefinitions"
    /\ UNCHANGED <<inputsArrays, pristine, callers, log, parseVars, mergeVars, pipelineVars,
                   loadVars, documentVars, sortVars, marshalVars>>

CallPristine ==
    /\ pristine = Nil
    /\ pristine' = Some(Pristine([key \in DOMAIN pipeline |-> EntryNow(key)]))
    /\ phase' = "Pristine"
    /\ UNCHANGED <<inputsArrays, resolved, callers, log, parseVars, mergeVars, pipelineVars,
                   loadVars, documentVars, sortVars, marshalVars>>

\* MarshalJSON on the definition merged from the entry of key
SerializeResolved(key) ==
    /\ key \in DOMAIN resolved
    /\ emitted' = Some(MarshalJSON(ResolvedNow(key)))
    /\ inputsArrays' =
            IF hasField(pipeline[key], "Inputs")
            THEN [inputsArrays EXCEPT ![key] = InputsAfterMarshalJSON(ResolvedNow(key))]
            ELSE inputsArrays
    /\ phase' = "MarshalJSON"
    /\ UNCHANGED <<taskDefinition, inputsArray, reparsed, resolved, pristine, callers, log,
                   parseVars, mergeVars, pipelineVars, loadVars, documentVars, sortVars>>

\* MarshalJSON on the pristine copy of the entry of key
SerializePristine(key) ==
    /\ pristine # Nil
    /\ key \in DOMAIN pristine[1]
    /\ emitted' = Some(MarshalJSON(PristineNow(key)))
    /\ inputsArrays' = [inputsArrays EXCEPT ![key] = InputsAfterMarshalJSON(PristineNow(key))]
    /\ phase' = "MarshalJSON"
    /\ UNCHANGED <<taskDefinition, inputsArray, reparsed, resolved, pristine, callers, log,
                   parseVars, mergeVars, pipelineVars, loadVars, documentVars, sortVars>>

NextProduced ==
    \/ \E key \in SharedKeys : MergeEntry(key)
    \/ CallPristine
    \/ \E key \in SharedKeys : SerializeResolved(key)
    \/ \E key \in SharedKeys : SerializePristine(key)

\* any sequence of merges, Pristine and serializations on one loaded pipeline
SpecProduced == InitProduced /\ [][NextProduced]_vars

\* the two goroutines
Callers == {1, 2}

\* the task identifiers they ask for
ResolveIDs == {<<"a">>, <<"p", "#", "a">>, <<"b", "#", "a">>}

\* the task name a caller hands to GetTask with every one of them
ResolveName == <<"a">>

\* a caller before its first step
NewCaller(id) ==
    [pc |-> "GetTask", taskID |-> id, taskName |-> ResolveName, key |-> Nil, err |-> "nil",
     merged |-> Nil, i |-> 0, j |-> 0, x |-> <<>>, y |-> <<>>, bytes |-> Nil]

\* one pipeline is loaded and each caller is given a task identifier of its own
InitConcurrent ==
    /\ phase = "input"
    /\ pipeline \in SharedPipelines
    /\ inputsArrays = [key \in DOMAIN pipeline |-> pipeline[key].TaskDefinition.Inputs]
    /\ \E id1 \in ResolveIDs : \E id2 \in ResolveIDs \ {id1} :
            callers = [n \in Callers |-> NewCaller(IF n = 1 THEN id1 ELSE id2)]
    /\ resolved = <<>>
    /\ pristine = Nil
    /\ taskID = <<>> /\ taskName = <<>> /\ got = [def |-> Nil, err |-> "nil"] /\ has = FALSE
    /\ log = <<>>
    /\ ParseIdle /\ MergeIdle /\ LoadIdle /\ MarshalIdle /\ DocumentIdle /\ SortIdle

\* what a step of a caller leaves alone besides callers and inputsArrays
ConcurrentFrame ==
    UNCHANGED <<phase, resolved, pristine, log, parseVars, mergeVars, pipelineVars, loadVars, documentVars, sortVars,
                marshalVars>>

\* the array that caller n sorts and encodes: the one of the entry it was given
ArrayOf(n) == inputsArrays[callers[n].key[1]]

\* the caller's merged definition has the entry's Inputs slice and it is not empty
SharesInputs(n) ==
    /\ hasField(pipeline[callers[n].key[1]], "Inputs")
    /\ Len(pipeline[callers[n].key[1]].TaskDefinition.Inputs) > 0

\* GetTask: reads the map, copies the entry (slice headers, not arrays)
CallerGetTask(n) ==
    /\ callers[n].pc = "GetTask"
    /\ LET key == GetTaskKey(pipeline, callers[n].taskID, callers[n].taskName)
       IN  callers' = [callers EXCEPT
                ![n].key = key,
                ![n].err = GetTask(pipeline, callers[n].taskID, callers[n].taskName).err,
                ![n].pc = IF key = Nil THEN "done" ELSE "MergeTaskDefinitions"]
    /\ UNCHANGED inputsArrays
    /\ ConcurrentFrame

\* MergeTaskDefinitions on the one-element chain; the caller receives the definition
\* as memory holds it when the call returns
CallerMerge(n) ==
    /\ callers[n].pc = "MergeTaskDefinitions"
    /\ callers' = [callers EXCEPT
            ![n].merged = Some(MergeTaskDefinitions(<<EntryNow(callers[n].key[1])>>)),
            ![n].pc = "MarshalJSON"]
    /\ UNCHANGED inputsArrays
    /\ ConcurrentFrame

\* MarshalJSON lines 501-541: the arrays built by append are the caller's own; then
\* sort.Strings(task.Inputs) starts, an insertion sort for a slice this short:
\*   for i := 1; i < n; i++ { for j := i; j > 0 && data[j] < data[j-1]; j-- { swap } }
\* (indices from 1 here)
CallerMarshalJSON(n) ==
    /\ callers[n].pc = "MarshalJSON"
    /\ callers' = [callers EXCEPT
            ![n].i = 2,
            ![n].j = 2,
            ![n].pc = IF SharesInputs(n) /\ Len(ArrayOf(n)) >= 2 THEN "less" ELSE "json.Marshal"]
    /\ UNCHANGED inputsArrays
    /\ ConcurrentFrame

\* the loop condition j > 0 && data[j] < data[j-1]: two reads
CallerLess(n) ==
    /\ callers[n].pc = "less"
    /\ LET me == callers[n]
           data == ArrayOf(n)
       IN  IF me.j >= 2 /\ StrLess(data[me.j], data[me.j - 1])
           THEN callers' = [callers EXCEPT ![n].pc = "swap"]
           ELSE callers' = [callers EXCEPT
                    ![n].i = me.i + 1,
                    ![n].j = me.i + 1,
                    ![n].pc = IF me.i + 1 > Len(data) THEN "json.Marshal" ELSE "less"]
    /\ UNCHANGED inputsArrays
    /\ ConcurrentFrame

\* data[j], data[j-1] = data[j-1], data[j]: the right-hand side is read first
CallerSwap(n) ==
    /\ callers[n].pc = "swap"
    /\ callers' = [callers EXCEPT
            ![n].x = ArrayOf(n)[callers[n].j - 1],
            ![n].y = ArrayOf(n)[callers[n].j],
            ![n].pc = "write1"]
    /\ UNCHANGED inputsArrays
    /\ ConcurrentFrame

\* data[j] = (old) data[j-1]
CallerWrite1(n) ==
    /\ callers[n].pc = "write1"
    /\ inputsArrays' = [inputsArrays EXCEPT ![callers[n].key[1]][callers[n].j] = callers[n].x]
    /\ callers' = [callers EXCEPT ![n].pc = "write2"]
    /\ ConcurrentFrame

\* data[j-1] = (old) data[j]; j--
CallerWrite2(n) ==
    /\ callers[n].pc = "write2"
    /\ inputsArrays' =
            [inputsArrays EXCEPT ![callers[n].key[1]][callers[n].j - 1] = callers[n].y]
    /\ callers' = [callers EXCEPT ![n].j = callers[n].j - 1, ![n].pc = "less"]
    /\ ConcurrentFrame

\* json.Marshal(task), line 544: task.Inputs is read from the shared array
CallerEncode(n) ==
    /\ callers[n].pc = "json.Marshal"
    /\ callers' = [callers EXCEPT
            ![n].bytes =
                Some([MarshalJSON(callers[n].merged[1]) EXCEPT
                        !.inputs = IF SharesInputs(n) THEN Some(ArrayOf(n)) ELSE @]),
            ![n].pc = "done"]
    /\ UNCHANGED inputsArrays
    /\ ConcurrentFrame

NextConcurrent ==
    \E n \in Callers :
        \/ CallerGetTask(n)
        \/ CallerMerge(n)
        \/ CallerMarshalJSON(n)
        \/ CallerLess(n)
        \/ CallerSwap(n)
        \/ CallerWrite1(n)
        \/ CallerWrite2(n)
        \/ CallerEncode(n)

\* two goroutines look up, merge and print a task each, without synchronization
SpecConcurrent == InitConcurrent /\ [][NextConcurrent]_vars

\* json.Unmarshal has decoded the document into a rawTurboJSON; the receiver is the
\* fresh TurboJSON the decoder allocates (readTurboJSON, line 282)
InitDocument ==
    /\ phase = "input"
    /\ \E deps \in ListsUpTo(GlobalDependencyTokens, MaxGlobals) :
       \E env \in ListsUpTo(GlobalEnvTokens, MaxGlobals - Len(deps)) :
       \E pc \in Pipelines({<<"a">>}) :
       \E remote \in {[TeamID |-> <<>>, Signature |-> FALSE],
                       [TeamID |-> <<"p">>, Signature |-> TRUE]} :
       \E extends \in {<<>>, << <<"p">> >>} :
            rawTurboJSON = Some([GlobalDependencies |-> deps,
                                 GlobalEnv          |-> env,
                                 Pipeline           |-> pc,
                                 RemoteCacheOptions |-> remote,
                                 Extends            |-> extends])
    /\ decoded = [c |-> ZeroTurboJSON, err |-> "nil"]
    /\ log = <<>>
    /\ ParseIdle /\ MergeIdle /\ PipelineIdle /\ LoadIdle
    /\ MarshalIdle /\ SharedIdle /\ SortIdle

UnmarshalDocument ==
    /\ phase = "input"
    /\ LET r == TurboJSONUnmarshalJSON(decoded.c, rawTurboJSON[1])
       IN  /\ decoded' = [c |-> r.c, err |-> r.err]
           /\ log' = log \o r.log
    /\ phase' = "TurboJSON.UnmarshalJSON"
    /\ UNCHANGED <<rawTurboJSON, parseVars, mergeVars, pipelineVars, loadVars, marshalVars,
                   sharedVars, sortVars>>

NextDocument == UnmarshalDocument

SpecDocument == InitDocument /\ [][NextDocument]_vars

\* a TaskOutputs with each list of at most MaxTokens globs, in any order
InitSort ==
    /\ phase = "input"
    /\ \E inclusions \in ListsUpTo(SortTokens, MaxTokens) :
       \E exclusions \in ListsUpTo(SortTokens, MaxTokens) :
            to = [Inclusions |-> inclusions, Exclusions |-> exclusions]
    /\ sorted = Nil
    /\ log = <<>>
    /\ ParseIdle /\ MergeIdle /\ PipelineIdle /\ LoadIdle
    /\ MarshalIdle /\ SharedIdle /\ DocumentIdle

\* the receiver is a copy (value receiver) and Sort only reads its lists
CallSort ==
    /\ phase = "input"
    /\ sorted' = Some(TaskOutputsSort(to))
    /\ phase' = "Sort"
    /\ UNCHANGED <<to, log, parseVars, mergeVars, pipelineVars, loadVars, marshalVars,
                   sharedVars, documentVars>>

NextSort == CallSort

SpecSort == InitSort /\ [][NextSort]_vars

----------------------------------------------------------------------------
(* Properties *)

\* number of positions of list that hold x
Occurrences(list, x) == Cardinality({i \in DOMAIN list : list[i] = x})

\* the two lists hold the same elements the same number of times
SameMultiset(l1, l2) ==
    \A x \in Range(l1) \cup Range(l2) : Occurrences(l1, x) = Occurrences(l2, x)

StartsWith(s, c) == s # <<>> /\ s[1] = c

\* every string of the list without its first character
WithoutFirst(list) == [i \in DOMAIN list |-> SubSeq(list[i], 2, Len(list[i]))]

\* every string of the list with the character c put in front
WithFirst(c, list) == [i \in DOMAIN list |-> <<c>> \o list[i]]

Ascending(list) ==
    \A i \in 1..(Len(list) - 1) : ~StrLess(list[i + 1], list[i])

NoDuplicates(list) ==
    \A i, j \in DOMAIN list : i # j => list[i] # list[j]

Parsed == phase = "UnmarshalJSON"
ParsedOk == phase = "UnmarshalJSON" /\ err = "nil"
Merged == phase = "MergeTaskDefinitions"

\* positions of taskDefinitions whose definedFields has field f
Definers(f) == {i \in DOMAIN taskDefinitions : f \in taskDefinitions[i].definedFields}

Last(S) == CHOOSE i \in S : \A j \in S : j <= i

\* C1: for each of the eight fields, when some definition of the list has the field in
\* its definedFields, the merged value of the field is the value of the last such
\* definition of the list, whatever the other definitions hold
C1_MergeLastDefinerWins ==
    Merged =>
        \A f \in Fields :
            Definers(f) # {} =>
                mergedTaskDefinition[f] = taskDefinitions[Last(Definers(f))].TaskDefinition[f]

\* a two-element list where only the first defines Outputs and the second, which
\* does not, carries other Outputs and defines something else
C1_Witness ==
    /\ Merged
    /\ Len(taskDefinitions) = 2
    /\ Definers("Outputs") = {1}
    /\ Definers("Inputs") = {1, 2}
    /\ taskDefinitions[1].TaskDefinition.Outputs # taskDefinitions[2].TaskDefinition.Outputs
    /\ taskDefinitions[1].TaskDefinition.Inputs # taskDefinitions[2].TaskDefinition.Inputs
    /\ taskDefinitions[1].TaskDefinition.Outputs.Inclusions # <<>>
    /\ taskDefinitions[2].TaskDefinition.Outputs.Inclusions # <<>>

\* the engine default of a field
DefaultOf(f) ==
    CASE f = "ShouldCache" -> TRUE
      [] f = "Persistent" -> FALSE
      [] f = "Outputs" -> [Inclusions |-> <<>>, Exclusions |-> <<>>]
      [] f = "OutputMode" -> "full"
      [] OTHER -> <<>>

\* C2: a field that no definition of the list defines is returned with its default:
\* ShouldCache true, Persistent false, every other field empty, whatever values the
\* definitions carry for it
C2_MergeDefaults ==
    Merged =>
        \A f \in Fields : Definers(f) = {} => mergedTaskDefinition[f] = DefaultOf(f)

\* a non-empty list whose definitions carry ShouldCache = false and Persistent = true
\* and non-empty Outputs without defining any of them
C2_Witness ==
    /\ Merged
    /\ Len(taskDefinitions) = 2
    /\ Definers("ShouldCache") = {} /\ Definers("Persistent") = {} /\ Definers("Outputs") = {}
    /\ Definers("Inputs") # {}
    /\ \A i \in DOMAIN taskDefinitions :
        /\ ~taskDefinitions[i].TaskDefinition.ShouldCache
        /\ taskDefinitions[i].TaskDefinition.Persistent
    /\ taskDefinitions[2].TaskDefinition.Outputs.Inclusions # <<>>

\* the dependsOn tokens of the raw task
DependsOn == Elems(task.DependsOn)

\* C3: every dependsOn token lands in exactly one bucket: a "$" token adds the token
\* minus one "$" to EnvVarDependencies, otherwise a "^" token adds the token minus one
\* "^" to TopologicalDependencies, otherwise the token itself is added to
\* TaskDependencies; nothing is dropped and nothing else is added
C3_DependsOnClassification ==
    ParsedOk =>
        LET td == btd.TaskDefinition
            env == SelectSeq(DependsOn, LAMBDA d : StartsWith(d, "$"))
            topo == SelectSeq(DependsOn, LAMBDA d : StartsWith(d, "^"))
            plain == SelectSeq(DependsOn, LAMBDA d : ~StartsWith(d, "$") /\ ~StartsWith(d, "^"))
        IN  /\ Range(td.EnvVarDependencies) =
                    {Tail(d) : d \in Range(env)} \cup Range(Elems(task.Env))
            /\ SameMultiset(td.TopologicalDependencies, WithoutFirst(topo))
            /\ SameMultiset(td.TaskDependencies, plain)

\* a successful parse of a dependsOn with a "$^" token and a "^^" token
C3_Witness ==
    /\ ParsedOk
    /\ \E i, j \in DOMAIN DependsOn :
        /\ DependsOn[i] = <<"$", "^", "a">>
        /\ DependsOn[j] = <<"^", "^", "a">>
    /\ btd.TaskDefinition.TopologicalDependencies = << <<"^", "a">> >>
    /\ btd.TaskDefinition.EnvVarDependencies = << <<"^", "a">> >>

\* C4: an env entry starting with "$" makes the parse fail, and the receiver is after
\* the failed parse what it was before it
C4_IllegalEnvLeavesReceiver ==
    (Parsed /\ \E i \in DOMAIN Elems(task.Env) : StartsWith(Elems(task.Env)[i], "$")) =>
        (err = "error" /\ btd = before)

\* C5: after a successful parse Outputs.Inclusions, Outputs.Exclusions,
\* EnvVarDependencies, TopologicalDependencies and TaskDependencies are ascending and
\* without duplicates, and Inputs is the source list
C5_SortedWithoutDuplicates ==
    ParsedOk =>
        LET td == btd.TaskDefinition
        IN  /\ \A list \in {td.Outputs.Inclusions, td.Outputs.Exclusions,
                            td.EnvVarDependencies, td.TopologicalDependencies,
                            td.TaskDependencies} :
                    Ascending(list) /\ NoDuplicates(list)
            /\ td.Inputs = Elems(task.Inputs)

\* C6: after a successful parse definedFields holds Outputs, ShouldCache,
\* EnvVarDependencies, Inputs, OutputMode, Persistent exactly when the field of the raw
\* task that the key decodes into is set (also to an empty list or to the default),
\* TopologicalDependencies (TaskDependencies) exactly when some dependsOn token is
\* topological (task), and nothing else; without cache ShouldCache is true, without
\* persistent Persistent is false
C6_DefinedFieldsRecordPresence ==
    ParsedOk =>
        LET df == btd.definedFields
        IN  /\ df \subseteq Fields
            /\ ("Outputs" \in df) <=> (task.Outputs # Nil)
            /\ ("ShouldCache" \in df) <=> (task.Cache # Nil)
            /\ ("EnvVarDependencies" \in df) <=> (task.Env # Nil)
            /\ ("Inputs" \in df) <=> (task.Inputs # Nil)
            /\ ("OutputMode" \in df) <=> (task.OutputMode # Nil)
            /\ ("Persistent" \in df) <=> (task.Persistent # Nil)
            /\ ("TopologicalDependencies" \in df) <=>
                    (\E i \in DOMAIN DependsOn : StartsWith(DependsOn[i], "^"))
            /\ ("TaskDependencies" \in df) <=>
                    (\E i \in DOMAIN DependsOn :
                        ~StartsWith(DependsOn[i], "$") /\ ~StartsWith(DependsOn[i], "^"))
            /\ (task.Cache = Nil => btd.TaskDefinition.ShouldCache)
            /\ (task.Persistent = Nil => ~btd.TaskDefinition.Persistent)

\* a successful parse of a task with "outputs": [], "cache": true, "env": [] and a
\* dependsOn that has only a "$" token
C6_Witness ==
    /\ ParsedOk
    /\ task.Outputs = Some(<<>>)
    /\ task.Cache = Some(TRUE)
    /\ task.Env = Some(<<>>)
    /\ task.Persistent = Nil
    /\ DependsOn = << <<"$", "a">> >>
    /\ btd.definedFields = {"Outputs", "ShouldCache", "EnvVarDependencies"}

\* C7: each glob of outputs goes to exactly one list: a glob starting with "!" to
\* Exclusions with that one "!" removed, any other glob to Inclusions unchanged; no
\* glob is lost or added; an absolute glob is logged and does not fail the parse
C7_OutputsSplit ==
    (Parsed /\ task.Outputs # Nil) =>
        LET globs == task.Outputs[1]
            out == btd.TaskDefinition.Outputs
            negated == SelectSeq(globs, LAMBDA g : StartsWith(g, "!"))
            others == SelectSeq(globs, LAMBDA g : ~StartsWith(g, "!"))
        IN  /\ SameMultiset(out.Exclusions, WithoutFirst(negated))
            /\ SameMultiset(out.Inclusions, others)
            /\ SameMultiset(out.Inclusions \o WithFirst("!", out.Exclusions),
                            globs)
            /\ \A g \in Range(globs) :
                    StartsWith(g, "/") => \E i \in DOMAIN log : log[i].value = g
            /\ (err = "error") <=>
                    (\E i \in DOMAIN Elems(task.Env) : StartsWith(Elems(task.Env)[i], "$"))

\* a successful parse of outputs that hold a "!!" glob and an absolute glob
C7_Witness ==
    /\ ParsedOk
    /\ task.Outputs = Some(<< <<"!", "!", "a">>, <<"/", "a">> >>)
    /\ btd.TaskDefinition.Outputs =
            [Inclusions |-> << <<"/", "a">> >>, Exclusions |-> << <<"!", "a">> >>]
    /\ Len(log) = 1

Looked == phase = "GetTask"

\* C8: GetTask returns the entry stored under taskID whenever the pipeline has that
\* key, also when it has taskName as well; the entry under taskName only when taskID
\* is not a key; and the pipeline is after the call what it was before
C8_GetTaskPrecedence ==
    [][Looked' =>
        /\ pipeline' = pipeline
        /\ taskID \in DOMAIN pipeline => got' = [def |-> <<pipeline[taskID]>>, err |-> "nil"]
        /\ (taskID \notin DOMAIN pipeline /\ taskName \in DOMAIN pipeline) =>
                got' = [def |-> <<pipeline[taskName]>>, err |-> "nil"]]_vars

\* a lookup in a pipeline that has both keys, with different entries
C8_Witness ==
    /\ Looked
    /\ taskID \in DOMAIN pipeline /\ taskName \in DOMAIN pipeline
    /\ taskID = <<"p", "#", "a">> /\ taskName = <<"a">>
    /\ pipeline[taskID] # pipeline[taskName]
    /\ got.def = <<pipeline[taskID]>>

Missed == Looked /\ taskID \notin DOMAIN pipeline /\ taskName \notin DOMAIN pipeline

LoadedWithSynthesis ==
    phase = "LoadTurboConfig" /\ includeSynthesized /\ loaded.err = "nil"

\* the pipeline of the document on disk, empty when there is none
DocumentPipeline ==
    IF turboFile.turboJSON = <<>> THEN EmptyPipeline ELSE turboFile.turboJSON[1].Pipeline

RootKey(name) == <<"/", "/", "#">> \o name

\* C10: after a successful load with synthesis, HasTask is true of every script; every
\* script without a document entry of its name has under "//#script" an entry with
\* ShouldCache false and definedFields exactly {ShouldCache}; every document entry is
\* in the result with the definition and definedFields it had
C10_SynthesizedScripts ==
    LoadedWithSynthesis =>
        LET result == loaded.turboJSON[1].Pipeline
        IN  /\ \A s \in rootPackageJSON.Scripts : HasTask(result, s)
            /\ \A s \in rootPackageJSON.Scripts :
                    s \notin DOMAIN DocumentPipeline =>
                        /\ RootKey(s) \in DOMAIN result
                        /\ result[RootKey(s)].definedFields = {"ShouldCache"}
                        /\ ~result[RootKey(s)].TaskDefinition.ShouldCache
            /\ \A k \in DOMAIN DocumentPipeline :
                    RootKey(k) \in DOMAIN result /\ result[RootKey(k)] = DocumentPipeline[k]

\* a load where the document has task "a" with fields defined, and the manifest has
\* the scripts "a" and "b"
C10_Witness ==
    /\ LoadedWithSynthesis
    /\ rootPackageJSON.Scripts = {<<"a">>, <<"b">>}
    /\ DOMAIN DocumentPipeline = {<<"a">>}
    /\ "Outputs" \in DocumentPipeline[<<"a">>].definedFields
    /\ DOMAIN loaded.turboJSON[1].Pipeline = {<<"/", "/", "#", "a">>, <<"/", "/", "#", "b">>}

Loaded == phase = "LoadTurboConfig"

\* the identifier has a "#" after a non-empty package part
Qualified(id) == \E i \in 2..Len(id) : id[i] = "#"

\* the scripts of the manifest that no document entry is named after
ScriptsWithoutEntry == rootPackageJSON.Scripts \ DOMAIN DocumentPipeline

\* C11: with a document and synthesis requested, the load fails and returns no
\* configuration when some pipeline key is workspace-qualified; otherwise every key of
\* the returned pipeline starts with "//#", every document entry is found under
\* "//#" + its key with the definition it had, and no two entries fall on one key
C11_RootQualifiedKeys ==
    (Loaded /\ includeSynthesized /\ turboFile.turboJSON # <<>>) =>
        IF \E k \in DOMAIN DocumentPipeline : Qualified(k)
        THEN loaded.err # "nil" /\ loaded.turboJSON = <<>>
        ELSE /\ loaded.err = "nil"
             /\ LET result == loaded.turboJSON[1].Pipeline
                IN  /\ \A key \in DOMAIN result :
                            Len(key) > 3 /\ SubSeq(key, 1, 3) = <<"/", "/", "#">>
                    /\ \A k \in DOMAIN DocumentPipeline :
                            RootKey(k) \in DOMAIN result /\ result[RootKey(k)] = DocumentPipeline[k]
                    /\ Cardinality(DOMAIN result) =
                            Cardinality(DOMAIN DocumentPipeline) + Cardinality(ScriptsWithoutEntry)

\* a load with synthesis of a document that has the bare tasks "a" and "b" with
\* different definitions
C11_Witness ==
    /\ Loaded /\ includeSynthesized /\ loaded.err = "nil"
    /\ DOMAIN DocumentPipeline = {<<"a">>, <<"b">>}
    /\ DocumentPipeline[<<"a">>] # DocumentPipeline[<<"b">>]
    /\ rootPackageJSON.Scripts = {}
    /\ DOMAIN loaded.turboJSON[1].Pipeline = {<<"/", "/", "#", "a">>, <<"/", "/", "#", "b">>}

\* C12: no document and no synthesis: the not-found error and no configuration; no
\* document and synthesis: success with exactly one entry per script; a document that
\* cannot be read or decoded: an error in both modes; a document and no synthesis: the
\* decoded document as it is
C12_LoadOutcomes ==
    Loaded =>
        /\ (~turboFile.exists /\ ~includeSynthesized) =>
                (loaded.err = "could not find turbo.json" /\ loaded.turboJSON = <<>>)
        /\ (~turboFile.exists /\ includeSynthesized) =>
                /\ loaded.err = "nil"
                /\ DOMAIN loaded.turboJSON[1].Pipeline =
                        {RootKey(s) : s \in rootPackageJSON.Scripts}
                /\ Cardinality(DOMAIN loaded.turboJSON[1].Pipeline) =
                        Cardinality(rootPackageJSON.Scripts)
        /\ (turboFile.exists /\ turboFile.turboJSON = <<>>) =>
                (loaded.err \notin {"nil", "could not find turbo.json"} /\ loaded.turboJSON = <<>>)
        /\ (turboFile.turboJSON # <<>> /\ ~includeSynthesized) =>
                (loaded.err = "nil" /\ loaded.turboJSON = turboFile.turboJSON)

\* a load without synthesis of a document with a workspace-qualified task, the
\* manifest having scripts
C12_Witness ==
    /\ Loaded /\ ~includeSynthesized
    /\ rootPackageJSON.Scripts = {<<"a">>, <<"b">>}
    /\ DOMAIN DocumentPipeline = {<<"p", "#", "a">>}
    /\ loaded.turboJSON = turboFile.turboJSON

\* the part of the identifier after its first "#"
AfterDelimiter(id) ==
    LET first == CHOOSE i \in DOMAIN id : id[i] = "#" /\ \A j \in 1..(i - 1) : id[j] # "#"
    IN  SubSeq(id, first + 1, Len(id))

\* C13: HasTask(name) is true exactly when some pipeline key equals name or some
\* workspace-qualified key has name as its task component; it is false on the empty
\* pipeline; the pipeline is after the call what it was before
C13_HasTask ==
    [][(phase' = "HasTask") =>
        /\ pipeline' = pipeline
        /\ has' <=> \E key \in DOMAIN pipeline :
                        key = taskID \/ (Qualified(key) /\ AfterDelimiter(key) = taskID)
        /\ (DOMAIN pipeline = {}) => ~has']_vars

\* HasTask("a") on a pipeline whose only keys are "p#a" and "b"
C13_Witness ==
    /\ phase = "HasTask"
    /\ taskID = <<"a">>
    /\ DOMAIN pipeline = {<<"p", "#", "a">>, <<"b">>}
    /\ has

Marshalled == phase = "MarshalJSON"

\* the lists over the elements of list that are no longer than it and hold every
\* element of it: its permutations, and the lists that repeat an element less often
Rearrangements(list) ==
    {l \in ListsUpTo(Range(list), Len(list)) : Range(l) = Range(list)}

\* the definitions that differ from td in one list, which is rearranged
Variants(td) ==
    {[td EXCEPT !.Outputs.Inclusions = l] : l \in Rearrangements(td.Outputs.Inclusions)}
    \cup {[td EXCEPT !.Outputs.Exclusions = l] : l \in Rearrangements(td.Outputs.Exclusions)}
    \cup {[td EXCEPT !.EnvVarDependencies = l] : l \in Rearrangements(td.EnvVarDependencies)}
    \cup {[td EXCEPT !.TopologicalDependencies = l] :
                l \in Rearrangements(td.TopologicalDependencies)}
    \cup {[td EXCEPT !.TaskDependencies = l] : l \in Rearrangements(td.TaskDependencies)}
    \cup {[td EXCEPT !.Inputs = l] : l \in Rearrangements(td.Inputs)}

\* the two definitions have the same scalars, and each list of one holds the same
\* strings as the list of the other
EqualAsSets(d1, d2) ==
    /\ d1.ShouldCache = d2.ShouldCache /\ d1.Persistent = d2.Persistent
    /\ d1.OutputMode = d2.OutputMode
    /\ Range(d1.Outputs.Inclusions) = Range(d2.Outputs.Inclusions)
    /\ Range(d1.Outputs.Exclusions) = Range(d2.Outputs.Exclusions)
    /\ Range(d1.EnvVarDependencies) = Range(d2.EnvVarDependencies)
    /\ Range(d1.TopologicalDependencies) = Range(d2.TopologicalDependencies)
    /\ Range(d1.TaskDependencies) = Range(d2.TaskDependencies)
    /\ Range(d1.Inputs) = Range(d2.Inputs)

\* the same, each string as many times in one list as in the other
EqualAsMultisets(d1, d2) ==
    /\ d1.ShouldCache = d2.ShouldCache /\ d1.Persistent = d2.Persistent
    /\ d1.OutputMode = d2.OutputMode
    /\ SameMultiset(d1.Outputs.Inclusions, d2.Outputs.Inclusions)
    /\ SameMultiset(d1.Outputs.Exclusions, d2.Outputs.Exclusions)
    /\ SameMultiset(d1.EnvVarDependencies, d2.EnvVarDependencies)
    /\ SameMultiset(d1.TopologicalDependencies, d2.TopologicalDependencies)
    /\ SameMultiset(d1.TaskDependencies, d2.TaskDependencies)
    /\ SameMultiset(d1.Inputs, d2.Inputs)

\* the four arrays are arrays and not null, hold what the definition holds, and ascend
EmittedArrays ==
    /\ emitted[1].outputs # Nil /\ emitted[1].inputs # Nil
    /\ emitted[1].env # Nil /\ emitted[1].dependsOn # Nil
    /\ SameMultiset(emitted[1].outputs[1],
                    taskDefinition.Outputs.Inclusions
                        \o WithFirst("!", taskDefinition.Outputs.Exclusions))
    /\ SameMultiset(emitted[1].dependsOn[1],
                    taskDefinition.TaskDependencies
                        \o WithFirst("^", taskDefinition.TopologicalDependencies))
    /\ SameMultiset(emitted[1].env[1], taskDefinition.EnvVarDependencies)
    /\ SameMultiset(emitted[1].inputs[1], taskDefinition.Inputs)
    /\ Ascending(emitted[1].outputs[1]) /\ Ascending(emitted[1].dependsOn[1])
    /\ Ascending(emitted[1].env[1]) /\ Ascending(emitted[1].inputs[1])

\* C14 as stated: MarshalJSON emits outputs, inputs, env and dependsOn as arrays, never
\* null; outputs is the Inclusions and "!" + each exclusion, dependsOn the
\* TaskDependencies and "^" + each topological dependency; each array ascends whatever
\* the order of the internal lists, and two definitions that are equal as sets
\* serialize to the same bytes
C14_EqualAsSetsSameBytes ==
    Marshalled =>
        /\ EmittedArrays
        /\ \A d \in Variants(taskDefinition) :
                EqualAsSets(d, taskDefinition) => MarshalJSON(d) = emitted[1]

\* C14, amended: the same about the arrays, and two definitions whose lists hold the
\* same strings the same number of times, in any order, serialize to the same bytes
C14_EqualAsMultisetsSameBytes ==
    Marshalled =>
        /\ EmittedArrays
        /\ \A d \in Variants(taskDefinition) :
                EqualAsMultisets(d, taskDefinition) => MarshalJSON(d) = emitted[1]

\* an inclusion and an exclusion that sorts before it once negated, lists out of
\* order elsewhere empty: outputs mixes both in ascending order, env is [] and not null
C14_Witness ==
    /\ Marshalled
    /\ taskDefinition.Outputs.Inclusions = << <<"b">> >>
    /\ taskDefinition.Outputs.Exclusions = << <<"a">> >>
    /\ emitted[1].outputs = Some(<< <<"!", "a">>, <<"b">> >>)
    /\ taskDefinition.EnvVarDependencies = <<>>
    /\ emitted[1].env = Some(<<>>)

Reparsed == phase = "reparsed"

\* C15: for every raw task that parses, printing the definition got by parsing it and
\* merging the one-element chain, then parsing the printed object, succeeds and gives a
\* TaskDefinition equivalent to the one printed: the Outputs lists, EnvVarDependencies,
\* TopologicalDependencies and TaskDependencies equal as sets, ShouldCache, Persistent
\* and OutputMode equal, and Inputs equal as a sequence, in the same order
C15_RoundTrip ==
    Reparsed =>
        /\ reparsed[1].err = "nil"
        /\ LET again == reparsed[1].btd.TaskDefinition
               printed == mergedTaskDefinition
           IN  /\ Range(again.Outputs.Inclusions) = Range(printed.Outputs.Inclusions)
               /\ Range(again.Outputs.Exclusions) = Range(printed.Outputs.Exclusions)
               /\ Range(again.EnvVarDependencies) = Range(printed.EnvVarDependencies)
               /\ Range(again.TopologicalDependencies) = Range(printed.TopologicalDependencies)
               /\ Range(again.TaskDependencies) = Range(printed.TaskDependencies)
               /\ again.ShouldCache = printed.ShouldCache
               /\ again.Persistent = printed.Persistent
               /\ again.OutputMode = printed.OutputMode
               /\ again.Inputs = printed.Inputs

\* C18: for every raw task that parses, MergeTaskDefinitions of the one-element list
\* of the parsed definition returns every field as the parser left it, lists compared
\* as sets; in particular the names the parser took from "$" tokens of dependsOn are
\* in the merged EnvVarDependencies, also when the task has no env key
C18_ParseThenMergeLosesNothing ==
    (Merged /\ taskDefinitions = <<btd>>) =>
        LET parsed == btd.TaskDefinition
            merged == mergedTaskDefinition
        IN  /\ Range(merged.Outputs.Inclusions) = Range(parsed.Outputs.Inclusions)
            /\ Range(merged.Outputs.Exclusions) = Range(parsed.Outputs.Exclusions)
            /\ Range(merged.EnvVarDependencies) = Range(parsed.EnvVarDependencies)
            /\ Range(merged.TopologicalDependencies) = Range(parsed.TopologicalDependencies)
            /\ Range(merged.TaskDependencies) = Range(parsed.TaskDependencies)
            /\ Range(merged.Inputs) = Range(parsed.Inputs)
            /\ merged.ShouldCache = parsed.ShouldCache
            /\ merged.Persistent = parsed.Persistent
            /\ merged.OutputMode = parsed.OutputMode
            /\ DependsOnEnv(Elems(task.DependsOn)) \subseteq Range(merged.EnvVarDependencies)

\* C16: produced values are immutable: after any sequence of MergeTaskDefinitions,
\* Pristine and MarshalJSON calls every pipeline entry and every resolved
\* TaskDefinition holds the field values it had when it was produced; in particular
\* the order of Inputs, in the serialized definition and in the pipeline entry it was
\* merged from, is after serialization what it was before
C16_ProducedValuesImmutable ==
    /\ \A key \in DOMAIN pipeline : EntryNow(key) = pipeline[key]
    /\ \A key \in DOMAIN resolved : ResolvedNow(key) = resolved[key]
    /\ pristine # Nil => \A key \in DOMAIN pristine[1] : PristineNow(key) = pristine[1][key]

\* the elements of the shared arrays that the next step of caller n reads
Reads(n) ==
    LET me == callers[n]
    IN  IF me.pc \in {"less", "swap"} THEN {<<me.key[1], me.j>>, <<me.key[1], me.j - 1>>}
        ELSE IF me.pc = "json.Marshal" /\ SharesInputs(n)
             THEN {<<me.key[1], k>> : k \in DOMAIN ArrayOf(n)}
        ELSE {}

\* the elements of the shared arrays that the next step of caller n writes
Writes(n) ==
    LET me == callers[n]
    IN  IF me.pc = "write1" THEN {<<me.key[1], me.j>>}
        ELSE IF me.pc = "write2" THEN {<<me.key[1], me.j - 1>>}
        ELSE {}

\* the definition caller n resolves, and the bytes it prints, when it runs alone
AloneResolved(n) == MergeTaskDefinitions(<<pipeline[callers[n].key[1]]>>)
AloneBytes(n) == MarshalJSON(AloneResolved(n))

\* C17: when two callers concurrently look up, merge and serialize two different task
\* identifiers of one loaded pipeline (also identifiers that fall back to the same
\* bare-name entry), no step of one writes a location the other reads or writes, and
\* under every interleaving each caller gets the resolved definition and the bytes it
\* gets when it runs alone
C17_ParallelCallersIndependent ==
    /\ \A n, m \in Callers :
            n # m => Writes(n) \cap (Reads(m) \cup Writes(m)) = {}
    /\ \A n \in Callers :
            (callers[n].pc = "done" /\ callers[n].err = "nil") =>
                /\ callers[n].merged = Some(AloneResolved(n))
                /\ callers[n].bytes = Some(AloneBytes(n))

DocumentDecoded == phase = "TurboJSON.UnmarshalJSON"

\* C19: TurboJSON.UnmarshalJSON fails when some globalEnv entry starts with "$"; each
\* globalDependencies entry that starts with "$" is put into GlobalEnv without that
\* one "$" and never into GlobalDeps, every other entry is put into GlobalDeps as it
\* is, an absolute path only being warned about; on success GlobalEnv and GlobalDeps
\* are ascending and without duplicates, and Pipeline, RemoteCacheOptions and Extends
\* are those of the source document
C19_DocumentGlobals ==
    DocumentDecoded =>
        LET raw == rawTurboJSON[1]
        IN  /\ (\E i \in DOMAIN raw.GlobalEnv : StartsWith(raw.GlobalEnv[i], "$"))
                    => decoded.err = "error"
            /\ decoded.err = "nil" =>
                /\ \A i \in DOMAIN raw.GlobalDependencies :
                        LET value == raw.GlobalDependencies[i]
                        IN  IF StartsWith(value, "$")
                            THEN /\ SubSeq(value, 2, Len(value)) \in Range(decoded.c.GlobalEnv)
                                 /\ value \notin Range(decoded.c.GlobalDeps)
                            ELSE value \in Range(decoded.c.GlobalDeps)
                /\ Cardinality({i \in DOMAIN log : log[i].kind = "WARNING"})
                        = Cardinality({i \in DOMAIN raw.GlobalDependencies :
                                            StartsWith(raw.GlobalDependencies[i], "/")})
                /\ Ascending(decoded.c.GlobalEnv) /\ NoDuplicates(decoded.c.GlobalEnv)
                /\ Ascending(decoded.c.GlobalDeps) /\ NoDuplicates(decoded.c.GlobalDeps)
                /\ decoded.c.Pipeline = raw.Pipeline
                /\ decoded.c.RemoteCacheOptions = raw.RemoteCacheOptions
                /\ decoded.c.Extends = raw.Extends

\* a document with a "$$" entry and an absolute path in globalDependencies parses:
\* the name keeps one "$" in GlobalEnv and the path is a file dependency
C19_Witness ==
    /\ DocumentDecoded
    /\ decoded.err = "nil"
    /\ rawTurboJSON[1].GlobalDependencies = << <<"$", "$", "a">>, <<"/", "a">> >>
    /\ decoded.c.GlobalEnv = << <<"$", "a">> >>
    /\ decoded.c.GlobalDeps = << <<"/", "a">> >>
    /\ DOMAIN decoded.c.Pipeline # {}

\* C20: TaskOutputs.Sort returns a TaskOutputs whose Inclusions and Exclusions hold
\* the same elements, each as many times, as the receiver's, each list ascending, and
\* leaves the receiver's own lists as they were
C20_SortReturnsSortedCopy ==
    [][(phase' = "Sort") =>
            /\ SameMultiset(sorted'[1].Inclusions, to.Inclusions)
            /\ SameMultiset(sorted'[1].Exclusions, to.Exclusions)
            /\ Ascending(sorted'[1].Inclusions)
            /\ Ascending(sorted'[1].Exclusions)
            /\ to' = to]_vars

====
